---- MODULE Spec2Model ----
(***************************************************************************)
(* Model of the learning-incentive core of the homework backend:           *)
(*   - the Ebbinghaus review records (services/ebbinghaus_service.py and   *)
(*     api/ebbinghaus_reviews.py),                                         *)
(*   - the daily check-in, streak and score ledger                         *)
(*     (services/async_learning_data.py, services/learning_data.py).       *)
(* Dates are day numbers.  A table is a bag of rows: the autoincrement id  *)
(* of a row is read by no code path modelled here, so two rows that agree  *)
(* on every other column are two copies of one element.                    *)
(***************************************************************************)
EXTENDS Integers, Sequences, FiniteSets, Bags, TLC

\* ------------------------------------------------------------------ bounds
MaxDay == 4
MaxDayUnattended == 15
MaxDayDaily == 32
MaxDayOverdue == 31
MaxUpgraded == 1
MaxDayRace == 3
MaxGradeDay == 1
MaxRecords == 9
MaxScores == 2
MaxScoresRace == 3
MaxDayCheckin == 7
MaxScoresCheckin == 4
MaxDayStreak == 7
MaxStreak == 4
MaxDaySched == 2
MaxLoops == 2
MaxCalls == 3
MaxCallsRunner == 1
MaxFaults == 1
MaxPassTicks == 1

\* --------------------------------------------------------------- constants
EBBINGHAUS_INTERVALS == <<1, 3, 7, 15, 30>>
NumIntervals == Len(EBBINGHAUS_INTERVALS)
\* Python indexes from 0: EBBINGHAUS_INTERVALS[review_count]
Interval(review_count) == EBBINGHAUS_INTERVALS[review_count + 1]
NULL == -1
DaysInWeek == 7

VARIABLES
    today,        \* the calendar date read by date.today()
    users,        \* table users: id -> row (role, streak fields, cached score)
    submissions,  \* table submissions: id -> [student_id, grade, graded_at]
    records,      \* table of Ebbinghaus review records
    mastered,     \* table of Ebbinghaus mastered tasks
    checkins,     \* table user_checkins
    scores,       \* table user_score_records
    lastOp,       \* the last event: the handler that returned, and its answer
    procs         \* requests in flight: process id -> local state

vars == <<today, users, submissions, records, mastered, checkins, scores,
          lastOp, procs>>

QualityGrades == {"good", "excellent"}
Grades == {"review", "good", "excellent"}

\* ----------------------------------------------------------------- helpers
Max(a, b) == IF a >= b THEN a ELSE b

SetMax(S) == CHOOSE x \in S : \A y \in S : y <= x
SetMin(S) == CHOOSE x \in S : \A y \in S : x <= y

\* db.add(row): one more copy of the row.
AddRow(table, row) == table (+) SetToBag({row})
\* n more copies
AddRows(table, row, n) == IF n = 0 THEN table ELSE table (+) [x \in {row} |-> n]
\* The table without n copies of the row.
DropRows(table, row, n) == IF n = 0 THEN table ELSE table (-) [x \in {row} |-> n]
\* The number of rows among the given ones.
CountOf(table, rows) == BagCardinality([r \in rows |-> table[r]])

\* A new row as the constructors of EbbinghausReviewRecord build it.
NewRecord(u, s, rc, sched, origin) ==
    [user_id |-> u, submission_id |-> s, review_count |-> rc,
     scheduled_date |-> sched, original_graded_date |-> origin,
     status |-> "pending", is_mastered |-> FALSE]

\* An existence query that finds nothing.
NoExistingRows(recs, u, s, rc) == {}

\* Rows of (user, submission) with a given review_count, whatever their status.
ExistingRows(recs, u, s, rc) ==
    {r \in DOMAIN recs : /\ r.user_id = u
                         /\ r.submission_id = s
                         /\ r.review_count = rc}

PendingRows(recs, u, s) ==
    {r \in DOMAIN recs : /\ r.user_id = u
                         /\ r.submission_id = s
                         /\ r.status = "pending"}

MasteredRows(mast, u, s) ==
    {r \in DOMAIN mast : r.user_id = u /\ r.submission_id = s}

\* ------------------------------------------------ generate_daily_review_queue
\* select(Submission) ... grade in (GOOD, EXCELLENT), graded_at is not null
QualifyingSubs(subs, u) ==
    {s \in DOMAIN subs : /\ subs[s].student_id = u
                         /\ subs[s].grade \in QualityGrades
                         /\ subs[s].graded_at # NULL}

\* order_by(desc(Submission.graded_at)); rows with equal graded_at by id
RECURSIVE OrderByGradedDesc(_, _)
OrderByGradedDesc(subs, S) ==
    IF S = {} THEN <<>>
    ELSE LET m  == SetMax({subs[s].graded_at : s \in S})
             s0 == SetMin({s \in S : subs[s].graded_at = m})
         IN  <<s0>> \o OrderByGradedDesc(subs, S \ {s0})

\* The loop over enumerate(EBBINGHAUS_INTERVALS) for one submission, from
\* review_count rc on.  scalar_one_or_none() raises MultipleResultsFound when
\* two rows share the review_count: raised is TRUE and the rows added so far
\* stay in the session.
RECURSIVE GenerateIntervals(_, _, _, _, _, _)
GenerateIntervals(recs, u, s, graded_date, rc, day) ==
    IF rc >= NumIntervals THEN [recs |-> recs, raised |-> FALSE]
    ELSE LET scheduled_date == graded_date + Interval(rc) IN
         IF scheduled_date <= day
         THEN LET n == CountOf(recs, ExistingRows(recs, u, s, rc)) IN
              IF n >= 2 THEN [recs |-> recs, raised |-> TRUE]
              ELSE IF n = 0
                   THEN GenerateIntervals(
                            AddRow(recs, NewRecord(u, s, rc, scheduled_date, graded_date)),
                            u, s, graded_date, rc + 1, day)
                   ELSE GenerateIntervals(recs, u, s, graded_date, rc + 1, day)
         ELSE GenerateIntervals(recs, u, s, graded_date, rc + 1, day)

\* _generate_user_daily_reviews: the loop over the user's submissions.
RECURSIVE GenerateSubs(_, _, _, _, _, _)
GenerateSubs(recs, mast, subs, u, order, day) ==
    IF order = <<>> THEN [recs |-> recs, raised |-> FALSE]
    ELSE LET s  == Head(order)
             nm == CountOf(mast, MasteredRows(mast, u, s))
         IN  IF nm >= 2 THEN [recs |-> recs, raised |-> TRUE]
             ELSE IF nm = 1
                  THEN GenerateSubs(recs, mast, subs, u, Tail(order), day)
                  ELSE LET r == GenerateIntervals(recs, u, s, subs[s].graded_at, 0, day)
                       IN  IF r.raised THEN r
                           ELSE GenerateSubs(r.recs, mast, subs, u, Tail(order), day)

GenerateUserDailyReviews(recs, mast, subs, u, day) ==
    GenerateSubs(recs, mast, subs, u,
                 OrderByGradedDesc(subs, QualifyingSubs(subs, u)), day)

\* select(User).where(role == "student", is_active == True)
ActiveStudents(usrs) ==
    {u \in DOMAIN usrs : usrs[u].role = "student" /\ usrs[u].is_active}

\* The batch without the try around a user: the first failure ends it.
RECURSIVE GenerateAllAborting(_, _, _, _, _)
GenerateAllAborting(recs, mast, subs, us, day) ==
    IF us = {} THEN recs
    ELSE LET u == SetMin(us)
             r == GenerateUserDailyReviews(recs, mast, subs, u, day)
         IN  IF r.raised THEN r.recs
             ELSE GenerateAllAborting(r.recs, mast, subs, us \ {u}, day)

\* for user in users: try ... except: log.  A user's failure keeps the rows
\* already added for that user; the commit after the loop persists them all.
RECURSIVE GenerateAll(_, _, _, _, _)
GenerateAll(recs, mast, subs, us, day) ==
    IF us = {} THEN recs
    ELSE LET u == SetMin(us)
             r == GenerateUserDailyReviews(recs, mast, subs, u, day)
         IN  GenerateAll(r.recs, mast, subs, us \ {u}, day)

\* ------------------------------------------------------- GET /reviews/today
\* where user_id == u, scheduled_date <= today, status == PENDING
DueRows(recs, u, day) ==
    {r \in DOMAIN recs : /\ r.user_id = u
                         /\ r.scheduled_date <= day
                         /\ r.status = "pending"}

\* The test of auto_upgrade_overdue_tasks on one fetched row.
UpgradeDue(r, day) ==
    LET overdue_days == day - r.scheduled_date IN
    /\ overdue_days > 0
    /\ r.review_count < NumIntervals - 1
    /\ r.review_count + 1 < NumIntervals
    /\ overdue_days >= Interval(r.review_count + 1) - Interval(r.review_count)

\* The date without the move to today.
UpgradeDateUnclamped(r, day) ==
    r.original_graded_date + Interval(r.review_count + 1)

\* The date of the row an upgrade creates.
UpgradeDate(r, day) ==
    LET new_scheduled_date == r.original_graded_date + Interval(r.review_count + 1)
    IN  IF new_scheduled_date < day THEN day ELSE new_scheduled_date

\* record.status = COMPLETED on n fetched copies of row r, written by primary
\* key: copies another transaction has completed since stay completed.
MarkCompleted(recs, r, n) ==
    LET k == IF CopiesIn(r, recs) < n THEN CopiesIn(r, recs) ELSE n
    IN  AddRows(DropRows(recs, r, k), [r EXCEPT !.status = "completed"], k)

\* A pass that also closes the overdue rows of the last review_count.
RECURSIVE AutoUpgradeClosingLast(_, _, _, _)
AutoUpgradeClosingLast(recs, review_records, fetched, day) ==
    IF review_records = {} THEN recs
    ELSE LET r == CHOOSE x \in review_records : TRUE
             n == fetched[r]
         IN  IF UpgradeDue(r, day)
             THEN AutoUpgradeClosingLast(
                      AddRows(MarkCompleted(recs, r, n),
                              NewRecord(r.user_id, r.submission_id, r.review_count + 1,
                                        UpgradeDate(r, day), r.original_graded_date), n),
                      review_records \ {r}, fetched, day)
             ELSE IF r.review_count = NumIntervals - 1 /\ day > r.scheduled_date
                  THEN AutoUpgradeClosingLast(MarkCompleted(recs, r, n),
                                              review_records \ {r}, fetched, day)
                  ELSE AutoUpgradeClosingLast(recs, review_records \ {r}, fetched, day)

\* auto_upgrade_overdue_tasks: one pass over the rows fetched before it ran
\* (review_records: the distinct rows; fetched: how many copies of each).
RECURSIVE AutoUpgradeOverdueTasks(_, _, _, _)
AutoUpgradeOverdueTasks(recs, review_records, fetched, day) ==
    IF review_records = {} THEN recs
    ELSE LET r == CHOOSE x \in review_records : TRUE
             n == fetched[r]
         IN  IF UpgradeDue(r, day)
             THEN AutoUpgradeOverdueTasks(
                      AddRows(MarkCompleted(recs, r, n),
                              NewRecord(r.user_id, r.submission_id, r.review_count + 1,
                                        UpgradeDate(r, day), r.original_graded_date), n),
                      review_records \ {r}, fetched, day)
             ELSE AutoUpgradeOverdueTasks(recs, review_records \ {r}, fetched, day)

\* order_by(EbbinghausReviewRecord.scheduled_date): the rows of the set S,
\* each as often as the table holds it; rows of one date by review_count and
\* original date.
RowKey(r) ==
    ((r.scheduled_date * 100 + r.review_count) * 100 + r.original_graded_date) * 100
        + r.submission_id

RECURSIVE Repeat(_, _)
Repeat(x, n) == IF n = 0 THEN <<>> ELSE <<x>> \o Repeat(x, n - 1)

RECURSIVE OrderByScheduled(_, _)
OrderByScheduled(recs, S) ==
    IF S = {} THEN <<>>
    ELSE LET k  == SetMin({RowKey(r) : r \in S})
             r0 == CHOOSE r \in S : RowKey(r) = k
         IN  Repeat(r0, recs[r0]) \o OrderByScheduled(recs, S \ {r0})

\* ------------------------------------------------- score ledger and streak
\* A grant that writes the ledger row and leaves the cached total.
AddScoreRecordRowOnly(scs, usrs, u, score_type, score_value, day) ==
    [scores |-> AddRow(scs, [user_id |-> u, score_type |-> score_type,
                             score_value |-> score_value, record_date |-> day]),
     users  |-> usrs]

\* add_score_record: one ledger row, the cached total, commit.
AddScoreRecord(scs, usrs, u, score_type, score_value, day) ==
    [scores |-> AddRow(scs, [user_id |-> u, score_type |-> score_type,
                             score_value |-> score_value, record_date |-> day]),
     users  |-> IF u \in DOMAIN usrs
                THEN [usrs EXCEPT ![u].total_score = @ + score_value]
                ELSE usrs]

\* A streak update that counts the consecutive day without raising best_streak.
AsyncUpdateUserStreakKeepsBest(usr, checkin_date) ==
    IF usr.last_checkin_date = NULL
    THEN [usr EXCEPT !.current_streak = 1,
                     !.best_streak = Max(@, 1),
                     !.last_checkin_date = checkin_date]
    ELSE IF checkin_date - usr.last_checkin_date = 1
         THEN [usr EXCEPT !.current_streak = @ + 1,
                          !.last_checkin_date = checkin_date]
         ELSE IF checkin_date - usr.last_checkin_date > 1
              THEN [usr EXCEPT !.current_streak = 1,
                               !.last_checkin_date = checkin_date]
              ELSE [usr EXCEPT !.last_checkin_date = checkin_date]

\* A streak update that goes on counting after a break.
AsyncUpdateUserStreakNoReset(usr, checkin_date) ==
    IF usr.last_checkin_date = NULL
    THEN [usr EXCEPT !.current_streak = 1,
                     !.best_streak = Max(@, 1),
                     !.last_checkin_date = checkin_date]
    ELSE IF checkin_date - usr.last_checkin_date >= 1
         THEN [usr EXCEPT !.current_streak = @ + 1,
                          !.best_streak = Max(@, usr.current_streak + 1),
                          !.last_checkin_date = checkin_date]
         ELSE [usr EXCEPT !.last_checkin_date = checkin_date]

\* AsyncLearningDataService._update_user_streak on one user row.
AsyncUpdateUserStreak(usr, checkin_date) ==
    IF usr.last_checkin_date = NULL
    THEN [usr EXCEPT !.current_streak = 1,
                     !.best_streak = Max(@, 1),
                     !.last_checkin_date = checkin_date]
    ELSE LET days_diff == checkin_date - usr.last_checkin_date IN
         IF days_diff = 1
         THEN [usr EXCEPT !.current_streak = @ + 1,
                          !.best_streak = Max(@, usr.current_streak + 1),
                          !.last_checkin_date = checkin_date]
         ELSE IF days_diff > 1
              THEN [usr EXCEPT !.current_streak = 1,
                               !.last_checkin_date = checkin_date]
              ELSE [usr EXCEPT !.last_checkin_date = checkin_date]

CheckinRows(cks, u, day) ==
    {r \in DOMAIN cks : r.user_id = u /\ r.checkin_date = day}

\* AsyncLearningDataService.record_checkin as one session runs it, up to the
\* point it leaves: "false" (already checked in), "multiple"
\* (scalar_one_or_none found two rows and raised), or "attribute_error": the
\* row is added and the streak updated in the session, then
\* ScoreType.DAILY_CHECKIN, which the enum does not define, raises before
\* add_score_record, _check_streak_bonus and commit are reached.
AsyncRecordCheckin(cks, usrs, u, checkin_type, day) ==
    LET n == CountOf(cks, CheckinRows(cks, u, day)) IN
    IF n >= 2 THEN [result |-> "multiple", checkins |-> cks, users |-> usrs]
    ELSE IF n = 1 THEN [result |-> "false", checkins |-> cks, users |-> usrs]
    ELSE [result   |-> "attribute_error",
          checkins |-> AddRow(cks, [user_id |-> u, checkin_date |-> day,
                                    checkin_type |-> checkin_type]),
          users    |-> IF u \in DOMAIN usrs
                       THEN [usrs EXCEPT ![u] = AsyncUpdateUserStreak(@, day)]
                       ELSE usrs]

\* ------------------------------------------------------ mastered task rows
\* create_mastered_task_record / _create_mastered_task_record: "raised" when
\* scalar_one_or_none finds two rows or submission.graded_at is None.
CreateMasteredTaskRecord(mast, subs, u, s, day) ==
    LET n == CountOf(mast, MasteredRows(mast, u, s)) IN
    IF n >= 2 THEN [raised |-> TRUE, mastered |-> mast]
    ELSE IF n = 1 THEN [raised |-> FALSE, mastered |-> mast]
    ELSE IF s \notin DOMAIN subs \/ subs[s].graded_at = NULL
         THEN [raised |-> TRUE, mastered |-> mast]
         ELSE [raised |-> FALSE,
               mastered |-> AddRow(mast,
                   [user_id |-> u, submission_id |-> s,
                    original_graded_date |-> subs[s].graded_at,
                    mastered_date |-> day,
                    total_days_to_master |-> day - subs[s].graded_at])]

\* ================================================================ actions
Op(op, u, s, result) ==
    [op |-> op, user |-> u, sub |-> s, result |-> result, data |-> <<>>]

\* What update_review_progress answers: ResponseBase (200), or the
\* HTTPException its except clause raises for every exception of the try
\* block, the 404 of "not found" included (500).
UpdateResponse(u, s, result) ==
    [Op("update_review_progress", u, s, result) EXCEPT
        !.data = <<IF result \in {"ok", "mastered"} THEN 200 ELSE 500>>]

UserRow(role) ==
    [role |-> role, is_active |-> TRUE, current_streak |-> 0, best_streak |-> 0,
     last_checkin_date |-> NULL, total_score |-> 0]

\* One student with one submitted, ungraded homework; empty tables.
InitReview ==
    /\ today = 0
    /\ users = (1 :> UserRow("student"))
    /\ submissions = (1 :> [student_id |-> 1, grade |-> "none", graded_at |-> NULL])
    /\ records = EmptyBag
    /\ mastered = EmptyBag
    /\ checkins = EmptyBag
    /\ scores = EmptyBag
    /\ lastOp = Op("init", 0, 0, "ok")
    /\ procs = <<>>

\* The calendar moves on.
AdvanceDay(last) ==
    /\ today < last
    /\ today' = today + 1
    /\ lastOp' = Op("advance_day", 0, 0, "ok")
    /\ UNCHANGED <<users, submissions, records, mastered, checkins, scores, procs>>

\* POST /submissions/grade: the grade, graded_at, then handle_grading_score.
GradeSubmission(s, g) ==
    /\ today <= MaxGradeDay
    /\ submissions' = [submissions EXCEPT ![s].grade = g, ![s].graded_at = today]
    /\ LET u  == submissions[s].student_id
           sc == IF g = "good"
                 THEN AddScoreRecord(scores, users, u, "good_grade", 2, today)
                 ELSE IF g = "excellent"
                      THEN AddScoreRecord(scores, users, u, "excellent_grade", 5, today)
                      ELSE [scores |-> scores, users |-> users]
       IN  /\ BagCardinality(sc.scores) <= MaxScores
           /\ scores' = sc.scores
           /\ users' = sc.users
           /\ lastOp' = Op("grade_submission", u, s, "ok")
    /\ UNCHANGED <<today, records, mastered, checkins, procs>>

\* EbbinghausReviewService.generate_daily_review_queue (the scheduler's pass).
GenerateDailyReviewQueue ==
    LET out == GenerateAll(records, mastered, submissions, ActiveStudents(users), today)
    IN  /\ BagCardinality(out) <= MaxRecords
        /\ records' = out
        /\ lastOp' = Op("generate_daily_review_queue", 0, 0, "ok")
        /\ UNCHANGED <<today, users, submissions, mastered, checkins, scores, procs>>

\* GET /reviews/today: query, auto_upgrade_overdue_tasks, commit, query again;
\* data is the list the handler returns.
GetTodayReviewTasks(u) ==
    LET review_records == DueRows(records, u, today)
        upgraded == AutoUpgradeOverdueTasks(records, review_records, records, today)
        updated_records == OrderByScheduled(upgraded, DueRows(upgraded, u, today))
    IN  /\ BagCardinality(upgraded) <= MaxRecords
        /\ records' = upgraded
        /\ lastOp' = [Op("get_today_review_tasks", u, 0, "ok")
                         EXCEPT !.data = updated_records]
        /\ UNCHANGED <<today, users, submissions, mastered, checkins, scores, procs>>

\* EbbinghausReviewService.get_today_reviews_for_user: the one query; data is
\* the list it returns.
GetTodayReviewsForUser(u) ==
    /\ lastOp' = [Op("get_today_reviews_for_user", u, 0, "ok")
                     EXCEPT !.data = OrderByScheduled(records, DueRows(records, u, today))]
    /\ UNCHANGED <<today, users, submissions, records, mastered, checkins, scores, procs>>

\* The rows .order_by(desc(review_count)) ... .first() may return.
FirstPending(recs, u, s) ==
    LET pend == PendingRows(recs, u, s) IN
    {r \in pend : \A q \in pend : q.review_count <= r.review_count}

\* The table with one copy of row r replaced by row q.
Replace(table, r, q) == AddRow(DropRows(table, r, 1), q)

\* EbbinghausReviewService.complete_review.
CompleteReview(u, s) ==
    /\ UNCHANGED <<today, users, submissions, checkins, scores, procs>>
    /\ IF PendingRows(records, u, s) = {}
       THEN /\ lastOp' = Op("complete_review", u, s, "not_found")
            /\ UNCHANGED <<records, mastered>>
       ELSE \E current_record \in FirstPending(records, u, s) :
            LET new_review_count == current_record.review_count + 1
                done == [current_record EXCEPT !.status = "completed"]
            IN  IF new_review_count >= 5
                THEN LET m == CreateMasteredTaskRecord(mastered, submissions, u, s, today)
                     IN  IF m.raised
                         THEN /\ lastOp' = Op("complete_review", u, s, "failed")
                              /\ UNCHANGED <<records, mastered>>
                         ELSE /\ records' = Replace(records, current_record,
                                                    [done EXCEPT !.is_mastered = TRUE])
                              /\ mastered' = m.mastered
                              /\ lastOp' = Op("complete_review", u, s, "mastered")
                ELSE /\ BagCardinality(records) < MaxRecords
                     /\ records' = AddRow(Replace(records, current_record, done),
                            NewRecord(u, s, new_review_count,
                                      current_record.original_graded_date
                                          + Interval(new_review_count),
                                      current_record.original_graded_date))
                     /\ mastered' = mastered
                     /\ lastOp' = Op("complete_review", u, s, "ok")

\* The request bodies a client sends to PUT /reviews/records/{submission_id}
\* for the row it is completing: the next review_count, with either value of
\* is_mastered, and the next date counted from the original grading date.
ClientUpdateData(cur, day) ==
    {[review_count |-> cur.review_count + 1,
      is_mastered |-> m,
      next_review_date |-> IF cur.review_count + 1 < NumIntervals
                           THEN cur.original_graded_date + Interval(cur.review_count + 1)
                           ELSE day] : m \in BOOLEAN}

\* PUT /reviews/records/{submission_id}: update_review_progress.
\* scalar_one_or_none() on the pending rows: none is a 404 raised inside the
\* try and turned into a 500 after rollback, two raise MultipleResultsFound.
\* add_score_record commits, and with it the row marked completed; what
\* record_checkin left in the session is committed or rolled back with the rest.
UpdateReviewProgress(u, s, max_scores) ==
    /\ UNCHANGED <<today, submissions, procs>>
    /\ LET pend == PendingRows(records, u, s) IN
       IF CountOf(records, pend) # 1
       THEN /\ lastOp' = UpdateResponse(u, s,
                            IF pend = {} THEN "not_found" ELSE "multiple")
            /\ UNCHANGED <<users, records, mastered, checkins, scores>>
       ELSE \E current_record \in pend :
            \E update_data \in ClientUpdateData(current_record, today) :
            LET done == [current_record EXCEPT !.status = "completed"]
                sc == AddScoreRecord(scores, users, u, "review_complete", 1, today)
                ck == AsyncRecordCheckin(checkins, sc.users, u, "review_complete", today)
                new_review_count == update_data.review_count
                m == CreateMasteredTaskRecord(mastered, submissions, u, s, today)
                raised == IF update_data.is_mastered THEN m.raised
                          ELSE new_review_count >= NumIntervals
            IN  /\ BagCardinality(sc.scores) <= max_scores
                /\ scores' = sc.scores
                /\ IF raised
                   THEN /\ records' = Replace(records, current_record, done)
                        /\ users' = sc.users
                        /\ UNCHANGED <<mastered, checkins>>
                        /\ lastOp' = UpdateResponse(u, s, "failed")
                   ELSE /\ users' = ck.users
                        /\ checkins' = ck.checkins
                        /\ IF update_data.is_mastered
                           THEN /\ records' = Replace(records, current_record,
                                                      [done EXCEPT !.is_mastered = TRUE])
                                /\ mastered' = m.mastered
                                /\ lastOp' = UpdateResponse(u, s, "mastered")
                           ELSE /\ BagCardinality(records) < MaxRecords
                                /\ records' = AddRow(Replace(records, current_record, done),
                                       NewRecord(u, s, new_review_count,
                                                 update_data.next_review_date,
                                                 current_record.original_graded_date))
                                /\ mastered' = mastered
                                /\ lastOp' = UpdateResponse(u, s, "ok")

\* The request bodies a client sends to POST /reviews/records for submission s:
\* any review_count, dated from the grading date the client was shown.
ClientRecordData(subs, s) ==
    IF subs[s].graded_at = NULL THEN {}
    ELSE {[review_count |-> rc,
           created_at |-> subs[s].graded_at,
           next_review_date |-> subs[s].graded_at + Interval(rc)]
              : rc \in 0 .. NumIntervals - 1}

\* POST /reviews/records: create_review_record.
CreateReviewRecord(u, s) ==
    \E record_data \in ClientRecordData(submissions, s) :
    LET n == CountOf(records, ExistingRows(records, u, s, record_data.review_count)) IN
    /\ UNCHANGED <<today, users, submissions, mastered, checkins, scores, procs>>
    /\ IF n >= 2
       THEN /\ lastOp' = Op("create_review_record", u, s, "failed")
            /\ UNCHANGED records
       ELSE IF n = 1
            THEN /\ lastOp' = Op("create_review_record", u, s, "exists")
                 /\ UNCHANGED records
            ELSE /\ BagCardinality(records) < MaxRecords
                 /\ records' = AddRow(records,
                        NewRecord(u, s, record_data.review_count,
                                  record_data.next_review_date, record_data.created_at))
                 /\ lastOp' = Op("create_review_record", u, s, "ok")

\* POST /reviews/mastered: log_mastered_task.
LogMasteredTask(u, s) ==
    LET m == CreateMasteredTaskRecord(mastered, submissions, u, s, today) IN
    /\ mastered' = m.mastered
    /\ lastOp' = Op("log_mastered_task", u, s, IF m.raised THEN "failed" ELSE "ok")
    /\ UNCHANGED <<today, users, submissions, records, checkins, scores, procs>>

NextReview ==
    \/ AdvanceDay(MaxDay)
    \/ \E s \in DOMAIN submissions, g \in Grades : GradeSubmission(s, g)
    \/ GenerateDailyReviewQueue
    \/ \E u \in DOMAIN users : GetTodayReviewTasks(u)
    \/ \E u \in DOMAIN users : GetTodayReviewsForUser(u)
    \/ \E s \in DOMAIN submissions : CompleteReview(submissions[s].student_id, s)
    \/ \E s \in DOMAIN submissions : UpdateReviewProgress(submissions[s].student_id, s, MaxScores)
    \/ \E s \in DOMAIN submissions : LogMasteredTask(submissions[s].student_id, s)

SpecReview == InitReview /\ [][NextReview]_vars

\* The learner never comes back to complete a review: only the calendar, the
\* teacher's grading, the nightly pass and the listing act.
NextUnattended ==
    \/ AdvanceDay(MaxDayUnattended)
    \/ \E s \in DOMAIN submissions, g \in Grades : GradeSubmission(s, g)
    \/ GenerateDailyReviewQueue
    \/ \E u \in DOMAIN users : GetTodayReviewTasks(u)

SpecUnattended == InitReview /\ [][NextUnattended]_vars

\* POST /reviews/generate-daily-queue: the loop over the intervals of one
\* submission.  The existence and the mastered query run for every interval
\* that has passed; either raises MultipleResultsFound on two rows.
RECURSIVE ApiGenerateIntervals(_, _, _, _, _, _, _)
ApiGenerateIntervals(recs, mast, u, s, graded_date, rc, day) ==
    IF rc >= NumIntervals THEN [recs |-> recs, raised |-> FALSE]
    ELSE LET scheduled_date == graded_date + Interval(rc) IN
         IF scheduled_date <= day
         THEN LET n  == CountOf(recs, ExistingRows(recs, u, s, rc))
                  nm == CountOf(mast, MasteredRows(mast, u, s))
              IN  IF n >= 2 \/ nm >= 2 THEN [recs |-> recs, raised |-> TRUE]
                  ELSE IF n = 0 /\ nm = 0
                       THEN ApiGenerateIntervals(
                                AddRow(recs, NewRecord(u, s, rc, scheduled_date, graded_date)),
                                mast, u, s, graded_date, rc + 1, day)
                       ELSE ApiGenerateIntervals(recs, mast, u, s, graded_date, rc + 1, day)
         ELSE ApiGenerateIntervals(recs, mast, u, s, graded_date, rc + 1, day)

\* The loop over the caller's good and excellent submissions (the query has
\* no order; an exception anywhere ends the request).
RECURSIVE ApiGenerateSubs(_, _, _, _, _, _)
ApiGenerateSubs(recs, mast, subs, u, S, day) ==
    IF S = {} THEN [recs |-> recs, raised |-> FALSE]
    ELSE LET s == SetMin(S)
             r == ApiGenerateIntervals(recs, mast, u, s, subs[s].graded_at, 0, day)
         IN  IF r.raised THEN r
             ELSE ApiGenerateSubs(r.recs, mast, subs, u, S \ {s}, day)

\* The handler: commit and new_reviews_created, or rollback and status 500.
ApiGenerateDailyReviewQueue(u) ==
    LET r == ApiGenerateSubs(records, mastered, submissions, u,
                             QualifyingSubs(submissions, u), today)
    IN  /\ BagCardinality(r.recs) <= MaxRecords
        /\ IF r.raised
           THEN /\ records' = records
                /\ lastOp' = Op("api_generate_daily_review_queue", u, 0, "failed")
           ELSE /\ records' = r.recs
                /\ lastOp' = [Op("api_generate_daily_review_queue", u, 0, "ok")
                                 EXCEPT !.data = [new_reviews_created |->
                                     BagCardinality(r.recs) - BagCardinality(records)]]
        /\ UNCHANGED <<today, users, submissions, mastered, checkins, scores, procs>>

\* Both passes among the operations that add, complete and master rows.
NextGenerate ==
    \/ AdvanceDay(MaxDay)
    \/ \E s \in DOMAIN submissions, g \in Grades : GradeSubmission(s, g)
    \/ GenerateDailyReviewQueue
    \/ \E u \in DOMAIN users : ApiGenerateDailyReviewQueue(u)
    \/ \E u \in DOMAIN users : GetTodayReviewTasks(u)
    \/ \E s \in DOMAIN submissions : CompleteReview(submissions[s].student_id, s)
    \/ \E s \in DOMAIN submissions : LogMasteredTask(submissions[s].student_id, s)

SpecGenerate == InitReview /\ [][NextGenerate]_vars

\* The nightly pass runs every night and the learner only looks at the list,
\* on the days they choose, until more than MaxUpgraded rows have been upgraded:
\* rows stay overdue for as long as nobody looks.
OverdueGenerate ==
    /\ lastOp.op = "advance_day"
    /\ GenerateDailyReviewQueue

OverdueList(u) ==
    /\ lastOp.op # "advance_day"
    /\ Cardinality({r \in BagToSet(records) : r.status = "completed"}) <= MaxUpgraded
    /\ GetTodayReviewTasks(u)

\* The homework is graded on the day it is handed in.
OverdueGrade(s, g) ==
    /\ today = 0
    /\ GradeSubmission(s, g)

OverdueAdvance ==
    /\ lastOp.op # "advance_day"
    /\ AdvanceDay(MaxDayOverdue)

NextOverdue ==
    \/ OverdueAdvance
    \/ OverdueGenerate
    \/ \E u \in DOMAIN users : OverdueList(u)
    \/ \E s \in DOMAIN submissions, g \in Grades : OverdueGrade(s, g)

SpecOverdue == InitReview /\ [][NextOverdue]_vars

\* The unattended chain day by day: SchedulerService.run_hourly_tasks calls
\* generate_daily_review_queue in hour 0 of each day, then the day's listing
\* runs auto_upgrade_overdue_tasks, then the teacher may grade, then the
\* calendar moves on.  lastOp tells which of them ran last.
DailyGenerate ==
    /\ lastOp.op = "advance_day"
    /\ GenerateDailyReviewQueue

DailyList(u) ==
    /\ lastOp.op = "generate_daily_review_queue"
    /\ GetTodayReviewTasks(u)

DailyGrade(s, g) ==
    /\ lastOp.op \in {"init", "get_today_review_tasks"}
    /\ GradeSubmission(s, g)

DailyAdvance ==
    /\ lastOp.op \in {"init", "get_today_review_tasks", "grade_submission"}
    /\ AdvanceDay(MaxDayDaily)

NextDaily ==
    \/ DailyAdvance
    \/ DailyGenerate
    \/ \E u \in DOMAIN users : DailyList(u)
    \/ \E s \in DOMAIN submissions, g \in Grades : DailyGrade(s, g)

\* The scheduler loop never ends and the listing is asked for every day.
SpecDaily ==
    /\ InitReview
    /\ [][NextDaily]_vars
    /\ WF_vars(DailyAdvance)
    /\ WF_vars(DailyGenerate)
    /\ WF_vars(\E u \in DOMAIN users : DailyList(u))

\* ------------------------------------------------- requests running at once
\* Two requests in flight.  A handler is cut where it awaits the database
\* between a read and the commit that acts on it.
Pids == {"a", "b"}
Idle == [pc |-> "idle"]

\* The state on day 1 of a submission graded "good" on day 0, after that
\* night's generate_daily_review_queue; no request in flight.
InitRace ==
    /\ today = 1
    /\ users = (1 :> [UserRow("student") EXCEPT !.total_score = 2])
    /\ submissions = (1 :> [student_id |-> 1, grade |-> "good", graded_at |-> 0])
    /\ records = SetToBag({NewRecord(1, 1, 0, 1, 0)})
    /\ mastered = EmptyBag
    /\ checkins = EmptyBag
    /\ scores = SetToBag({[user_id |-> 1, score_type |-> "good_grade",
                           score_value |-> 2, record_date |-> 0]})
    /\ lastOp = Op("generate_daily_review_queue", 0, 0, "ok")
    /\ procs = [p \in Pids |-> Idle]

\* update_review_progress up to its first await after the query: the pending
\* row is fetched; with none or two the handler fails at once.
StartUpdate(p, u, s) ==
    /\ procs[p].pc = "idle"
    /\ UNCHANGED <<today, users, submissions, records, mastered, checkins, scores>>
    /\ LET pend == PendingRows(records, u, s) IN
       IF CountOf(records, pend) # 1
       THEN /\ lastOp' = UpdateResponse(u, s,
                            IF pend = {} THEN "not_found" ELSE "multiple")
            /\ UNCHANGED procs
       ELSE \E current_record \in pend :
            \E update_data \in ClientUpdateData(current_record, today) :
            /\ procs' = [procs EXCEPT ![p] =
                   [pc |-> "score", op |-> "update", user |-> u, sub |-> s,
                    current_record |-> current_record, update_data |-> update_data]]
            /\ UNCHANGED lastOp

\* add_score_record commits the score and the row marked completed; then
\* record_checkin queries today's check-ins and the user row and leaves its
\* insert and the new streak in the session.
UpdateScore(p) ==
    /\ procs[p].pc = "score"
    /\ LET l  == procs[p]
           sc == AddScoreRecord(scores, users, l.user, "review_complete", 1, today)
           ck == AsyncRecordCheckin(checkins, sc.users, l.user, "review_complete", today)
       IN  /\ BagCardinality(sc.scores) <= MaxScoresRace
           /\ scores' = sc.scores
           /\ users' = sc.users
           /\ records' = MarkCompleted(records, l.current_record, 1)
           /\ procs' = [procs EXCEPT ![p] =
                  [pc |-> "finish", op |-> "update", user |-> l.user, sub |-> l.sub,
                   current_record |-> l.current_record, update_data |-> l.update_data,
                   checkin |-> ck.result, checkin_date |-> today,
                   streak |-> ck.users[l.user]]]
    /\ UNCHANGED <<today, submissions, mastered, checkins, lastOp>>

\* What commit writes of the session's check-in: the inserted row and the
\* user's streak columns as the session computed them.
CommitCheckin(cks, usrs, l) ==
    IF l.checkin = "attribute_error"
    THEN [checkins |-> AddRow(cks, [user_id |-> l.user,
                                    checkin_date |-> l.checkin_date,
                                    checkin_type |-> "review_complete"]),
          users |-> [usrs EXCEPT ![l.user].current_streak = l.streak.current_streak,
                                 ![l.user].best_streak = l.streak.best_streak,
                                 ![l.user].last_checkin_date = l.streak.last_checkin_date]]
    ELSE [checkins |-> cks, users |-> usrs]

\* The rest of update_review_progress: the mastered flag and record, or the
\* next row, and the commit; an exception rolls the session back.
UpdateFinish(p) ==
    /\ procs[p].pc = "finish"
    /\ procs' = [procs EXCEPT ![p] = Idle]
    /\ UNCHANGED <<today, submissions, scores>>
    /\ LET l    == procs[p]
           done == [l.current_record EXCEPT !.status = "completed"]
           m    == CreateMasteredTaskRecord(mastered, submissions, l.user, l.sub, today)
           raised == IF l.update_data.is_mastered THEN m.raised
                     ELSE l.update_data.review_count >= NumIntervals
           ck   == CommitCheckin(checkins, users, l)
       IN  IF raised
           THEN /\ lastOp' = UpdateResponse(l.user, l.sub, "failed")
                /\ UNCHANGED <<users, records, mastered, checkins>>
           ELSE /\ users' = ck.users
                /\ checkins' = ck.checkins
                /\ IF l.update_data.is_mastered
                   THEN /\ records' = IF CopiesIn(done, records) > 0
                                      THEN Replace(records, done,
                                                   [done EXCEPT !.is_mastered = TRUE])
                                      ELSE records
                        /\ mastered' = m.mastered
                        /\ lastOp' = UpdateResponse(l.user, l.sub, "mastered")
                   ELSE /\ BagCardinality(records) < MaxRecords
                        /\ records' = AddRow(records,
                               NewRecord(l.user, l.sub, l.update_data.review_count,
                                         l.update_data.next_review_date,
                                         l.current_record.original_graded_date))
                        /\ mastered' = mastered
                        /\ lastOp' = UpdateResponse(l.user, l.sub, "ok")

\* get_today_review_tasks up to the await of its first query.
StartList(p, u) ==
    /\ procs[p].pc = "idle"
    /\ procs' = [procs EXCEPT ![p] =
           [pc |-> "upgrade", op |-> "list", user |-> u, day |-> today,
            fetched |-> [r \in DueRows(records, u, today) |-> records[r]]]]
    /\ UNCHANGED <<today, users, submissions, records, mastered, checkins, scores, lastOp>>

\* auto_upgrade_overdue_tasks on the fetched rows, its commit, the second query.
ListUpgrade(p) ==
    /\ procs[p].pc = "upgrade"
    /\ LET l == procs[p]
           upgraded == AutoUpgradeOverdueTasks(records, DOMAIN l.fetched, l.fetched, l.day)
       IN  /\ BagCardinality(upgraded) <= MaxRecords
           /\ records' = upgraded
           /\ lastOp' = [Op("get_today_review_tasks", l.user, 0, "ok") EXCEPT
                            !.data = OrderByScheduled(upgraded, DueRows(upgraded, l.user, l.day))]
    /\ procs' = [procs EXCEPT ![p] = Idle]
    /\ UNCHANGED <<today, users, submissions, mastered, checkins, scores>>

\* log_mastered_task up to the await of create_mastered_task_record's
\* existence query: the rows it found are all the request knows of the table.
StartLogMastered(p, u, s) ==
    /\ procs[p].pc = "idle"
    /\ procs' = [procs EXCEPT ![p] =
           [pc |-> "insert", op |-> "mastered", user |-> u, sub |-> s,
            existing |-> [r \in MasteredRows(mastered, u, s) |-> mastered[r]]]]
    /\ UNCHANGED <<today, users, submissions, records, mastered, checkins, scores, lastOp>>

\* The rest of create_mastered_task_record, decided on the rows the query
\* returned: return if one exists, else add the row and commit.
LogMasteredInsert(p) ==
    /\ procs[p].pc = "insert"
    /\ LET l == procs[p]
           m == CreateMasteredTaskRecord(l.existing, submissions, l.user, l.sub, today)
       IN  /\ mastered' = mastered (+) (m.mastered (-) l.existing)
           /\ lastOp' = Op("log_mastered_task", l.user, l.sub,
                           IF m.raised THEN "failed" ELSE "ok")
    /\ procs' = [procs EXCEPT ![p] = Idle]
    /\ UNCHANGED <<today, users, submissions, records, checkins, scores>>

NextRace ==
    \/ AdvanceDay(MaxDayRace)
    \/ \E p \in Pids, s \in DOMAIN submissions : StartLogMastered(p, submissions[s].student_id, s)
    \/ \E p \in Pids : LogMasteredInsert(p)
    \/ \E p \in Pids, s \in DOMAIN submissions : StartUpdate(p, submissions[s].student_id, s)
    \/ \E p \in Pids : UpdateScore(p)
    \/ \E p \in Pids : UpdateFinish(p)
    \/ \E p \in Pids, u \in DOMAIN users : StartList(p, u)
    \/ \E p \in Pids : ListUpgrade(p)

SpecRace == InitRace /\ [][NextRace]_vars

\* --------------------------------------------- LearningDataService (sync)
\* date.weekday(): 0 is Monday, 6 is Sunday; day 0 of the model is a Monday.
Weekday(d) == d % DaysInWeek

\* LearningDataService._update_user_streak on one user row.  (Line 99 of the
\* file puts a comment after the line continuation; the condition is read as
\* the two lines evidently mean it.)
SyncUpdateUserStreak(usr, date, day) ==
    LET checkin_date == IF date > day THEN day ELSE date IN
    IF usr.last_checkin_date = NULL
    THEN [usr EXCEPT !.current_streak = 1,
                     !.best_streak = Max(@, 1),
                     !.last_checkin_date = checkin_date]
    ELSE LET days_diff == checkin_date - usr.last_checkin_date
             last_weekday == Weekday(usr.last_checkin_date)
             current_weekday == Weekday(checkin_date)
             advanced == [usr EXCEPT !.current_streak = @ + 1,
                                     !.best_streak = Max(@, usr.current_streak + 1),
                                     !.last_checkin_date = checkin_date]
             reset == [usr EXCEPT !.current_streak = 1,
                                  !.last_checkin_date = checkin_date]
         IN  IF days_diff = 0 THEN usr
             ELSE IF days_diff = 1 THEN advanced
             ELSE IF days_diff = 2
                  THEN IF \/ last_weekday = 4 /\ current_weekday = 0
                          \/ last_weekday = 5 /\ current_weekday = 0
                       THEN advanced
                       ELSE reset
             ELSE IF days_diff > 2 THEN reset
             ELSE usr

\* bonus_config of LearningDataService._check_streak_bonus
bonus_config == (3 :> 2) @@ (7 :> 5) @@ (15 :> 15) @@ (30 :> 50) @@ (60 :> 150) @@ (100 :> 300)

\* LearningDataService._check_streak_bonus
SyncCheckStreakBonus(scs, usrs, u, day) ==
    LET current_streak == usrs[u].current_streak IN
    IF current_streak \in DOMAIN bonus_config
    THEN LET bonus_points == bonus_config[current_streak]
             existing_bonus == {r \in DOMAIN scs :
                                   /\ r.user_id = u
                                   /\ r.score_type = "streak_bonus"
                                   /\ r.score_value = bonus_points
                                   /\ r.record_date = day}
         IN  IF existing_bonus = {}
             THEN AddScoreRecord(scs, usrs, u, "streak_bonus", bonus_points, day)
             ELSE [scores |-> scs, users |-> usrs]
    ELSE [scores |-> scs, users |-> usrs]

\* LearningDataService.record_checkin, called with a Session.
SyncRecordCheckin(u) ==
    /\ UNCHANGED <<today, submissions, records, mastered, procs>>
    /\ IF CheckinRows(checkins, u, today) # {}
       THEN /\ lastOp' = Op("record_checkin", u, 0, "false")
            /\ UNCHANGED <<users, checkins, scores>>
       ELSE LET streak == [users EXCEPT ![u] = SyncUpdateUserStreak(@, today, today)]
                bonus  == SyncCheckStreakBonus(scores, streak, u, today)
            IN  /\ BagCardinality(bonus.scores) <= MaxScoresCheckin
                /\ checkins' = AddRow(checkins, [user_id |-> u, checkin_date |-> today,
                                                 checkin_type |-> "task_view"])
                /\ users' = bonus.users
                /\ scores' = bonus.scores
                /\ lastOp' = Op("record_checkin", u, 0, "true")

\* GET /tasks/{task_id}: the handler's trigger_checkin_async inside try/except.
\* The handler commits nothing after it, so what record_checkin left in the
\* session when it raised goes when the request's session is closed.
GetTask(u) ==
    /\ lastOp' = Op("get_task", u, 0,
                    AsyncRecordCheckin(checkins, users, u, "task_view", today).result)
    /\ UNCHANGED <<today, users, submissions, records, mastered, checkins, scores, procs>>

\* The state on day 1, a Tuesday, the day after a submission was graded "good"
\* and after that night's generate_daily_review_queue.
InitCheckin ==
    /\ today = 1
    /\ users = (1 :> [UserRow("student") EXCEPT !.total_score = 2])
    /\ submissions = (1 :> [student_id |-> 1, grade |-> "good", graded_at |-> today - 1])
    /\ records = SetToBag({NewRecord(1, 1, 0, today, today - 1)})
    /\ mastered = EmptyBag
    /\ checkins = EmptyBag
    /\ scores = SetToBag({[user_id |-> 1, score_type |-> "good_grade",
                           score_value |-> 2, record_date |-> today - 1]})
    /\ lastOp = Op("generate_daily_review_queue", 0, 0, "ok")
    /\ procs = <<>>

NextCheckin ==
    \/ AdvanceDay(MaxDayCheckin)
    \/ \E u \in DOMAIN users : GetTask(u)
    \/ \E u \in DOMAIN users : SyncRecordCheckin(u)
    \/ \E s \in DOMAIN submissions :
           UpdateReviewProgress(submissions[s].student_id, s, MaxScoresCheckin)

SpecCheckin == InitCheckin /\ [][NextCheckin]_vars

\* ---------------------------------------------------- the streak functions
\* _update_user_streak of either service applied to a user row with any date
\* up to tomorrow's.
AsyncStreakAdvance(u, date) ==
    /\ users[u].current_streak < MaxStreak
    /\ users' = [users EXCEPT ![u] = AsyncUpdateUserStreak(@, date)]
    /\ lastOp' = [Op("async_update_user_streak", u, 0, "ok") EXCEPT !.data = <<date>>]
    /\ UNCHANGED <<today, submissions, records, mastered, checkins, scores, procs>>

SyncStreakAdvance(u, date) ==
    /\ users[u].current_streak < MaxStreak
    /\ users' = [users EXCEPT ![u] = SyncUpdateUserStreak(@, date, today)]
    /\ lastOp' = [Op("sync_update_user_streak", u, 0, "ok") EXCEPT !.data = <<date>>]
    /\ UNCHANGED <<today, submissions, records, mastered, checkins, scores, procs>>

InitStreak ==
    /\ today = 0
    /\ users = (1 :> UserRow("student"))
    /\ submissions = (1 :> [student_id |-> 1, grade |-> "none", graded_at |-> NULL])
    /\ records = EmptyBag
    /\ mastered = EmptyBag
    /\ checkins = EmptyBag
    /\ scores = EmptyBag
    /\ lastOp = Op("init", 0, 0, "ok")
    /\ procs = <<>>

NextStreak ==
    \/ AdvanceDay(MaxDayStreak)
    \/ \E u \in DOMAIN users, date \in 0 .. today + 1 : AsyncStreakAdvance(u, date)
    \/ \E u \in DOMAIN users, date \in 0 .. today + 1 : SyncStreakAdvance(u, date)

SpecStreak == InitStreak /\ [][NextStreak]_vars

\* ------------------------------------------------------- SchedulerService
\* Time in ticks of 300 s: asyncio.sleep(3600) is SleepTicks, the retry
\* asyncio.sleep(300) is RetryTicks, datetime.now().hour is Hour(now).
\* In this specification procs is the SchedulerService and its asyncio tasks:
\*   is_running  the instance flag
\*   now         the tick of the day
\*   loops       the tasks made by asyncio.create_task(scheduler_service.start())
\*   calls       how many start/stop requests were served
\*   faults      how often get_db or db.close() raised
\*   generated   how often generate_ebbinghaus_queue ran today
\*   active      is_running has been true since midnight
\*   done        generated and active of the day before
SleepTicks == 12
RetryTicks == 1
HoursPerDay == 24
TriggerHour == 0
TicksPerDay == HoursPerDay * SleepTicks
Hour(now) == (now \div SleepTicks) % HoursPerDay

\* The hour of the day at which the model's clock starts.
StartHour == HoursPerDay - 1
LifecycleHour == HoursPerDay - 4

NoLoop == [pc |-> "none"]

\* The tasks that are inside the while loop of start().
RunningLoops(prc) == {i \in DOMAIN prc.loops : prc.loops[i].pc \in {"pass", "sleep"}}
LoopIds == 1 .. MaxLoops

\* Ticks until the calendar of the model ends.
TimeLeft == (MaxDaySched - today) * TicksPerDay - procs.now

\* The service constructed (is_running False, no task) at hour o'clock of day.
InitSchedulerAt(day, hour) ==
    /\ today = day
    /\ users = (1 :> UserRow("student"))
    /\ submissions = (1 :> [student_id |-> 1, grade |-> "good", graded_at |-> 0])
    /\ records = EmptyBag
    /\ mastered = EmptyBag
    /\ checkins = EmptyBag
    /\ scores = SetToBag({[user_id |-> 1, score_type |-> "good_grade",
                           score_value |-> 2, record_date |-> 0]})
    /\ lastOp = Op("init", 0, 0, "ok")
    /\ procs = [is_running |-> FALSE, now |-> hour * SleepTicks,
                loops |-> [i \in LoopIds |-> NoLoop],
                calls |-> 0, faults |-> 0, generated |-> 0, active |-> FALSE,
                done |-> [generated |-> 0, active |-> FALSE]]

InitScheduler == InitSchedulerAt(0, StartHour)

\* run_hourly_tasks of loop i up to its last await: get_db may raise (the loop
\* then sleeps 300 s); else check_deadline_reminders, and in hour 0
\* generate_ebbinghaus_queue, which logs whatever the service raises.
RunHourlyTasks(prc, i, get_db_raised) ==
    IF get_db_raised
    THEN /\ prc.faults < MaxFaults
         /\ procs' = [prc EXCEPT !.loops[i] = [pc |-> "sleep", left |-> RetryTicks],
                                 !.faults = @ + 1]
         /\ lastOp' = Op("run_hourly_tasks", 0, i, "failed")
         /\ UNCHANGED records
    ELSE IF Hour(prc.now) = TriggerHour
         THEN /\ records' = GenerateAll(records, mastered, submissions,
                                        ActiveStudents(users), today)
              /\ procs' = [prc EXCEPT !.loops[i] = [pc |-> "pass", since |-> 0],
                                      !.generated = @ + 1]
              /\ lastOp' = Op("run_hourly_tasks", 0, i, "generated")
         ELSE /\ procs' = [prc EXCEPT !.loops[i] = [pc |-> "pass", since |-> 0]]
              /\ lastOp' = Op("run_hourly_tasks", 0, i, "ok")
              /\ UNCHANGED records

\* start-scheduler without its is_running test.
StartSchedulerUnguarded(max_calls) ==
    /\ procs.calls < max_calls
    /\ UNCHANGED <<today, users, submissions, records, mastered, checkins, scores>>
    /\ \E i \in LoopIds :
       /\ procs.loops[i] = NoLoop
       /\ \A j \in LoopIds : j < i => procs.loops[j] # NoLoop
       /\ procs' = [procs EXCEPT !.calls = @ + 1, !.loops[i] = [pc |-> "created"]]
       /\ lastOp' = Op("start_scheduler", 0, i, "started")

\* POST /notifications/start-scheduler.
StartScheduler(max_calls) ==
    /\ procs.calls < max_calls
    /\ UNCHANGED <<today, users, submissions, records, mastered, checkins, scores>>
    /\ IF procs.is_running
       THEN /\ procs' = [procs EXCEPT !.calls = @ + 1]
            /\ lastOp' = Op("start_scheduler", 0, 0, "running")
       ELSE \E i \in LoopIds :
            /\ procs.loops[i] = NoLoop
            /\ \A j \in LoopIds : j < i => procs.loops[j] # NoLoop
            /\ procs' = [procs EXCEPT !.calls = @ + 1, !.loops[i] = [pc |-> "created"]]
            /\ lastOp' = Op("start_scheduler", 0, i, "started")

\* SchedulerService.start when the task first runs: return if is_running,
\* else set it and enter the loop, whose first pass begins at once.
SchedulerStart(i) ==
    /\ procs.loops[i].pc = "created"
    /\ UNCHANGED <<today, users, submissions, mastered, checkins, scores>>
    /\ IF procs.is_running
       THEN /\ procs' = [procs EXCEPT !.loops[i] = NoLoop]
            /\ lastOp' = Op("start", 0, i, "running")
            /\ UNCHANGED records
       ELSE \E get_db_raised \in BOOLEAN :
            RunHourlyTasks([procs EXCEPT !.is_running = TRUE], i, get_db_raised)

\* The end of a sleep in a loop written "while True".
LoopWakeIgnoringStop(i) ==
    /\ procs.loops[i].pc = "sleep"
    /\ procs.loops[i].left = 0
    /\ UNCHANGED <<today, users, submissions, mastered, checkins, scores>>
    /\ \E get_db_raised \in BOOLEAN : RunHourlyTasks(procs, i, get_db_raised)

\* The end of a sleep: while self.is_running, the next pass; else the task ends.
LoopWake(i) ==
    /\ procs.loops[i].pc = "sleep"
    /\ procs.loops[i].left = 0
    /\ UNCHANGED <<today, users, submissions, mastered, checkins, scores>>
    /\ IF procs.is_running
       THEN \E get_db_raised \in BOOLEAN : RunHourlyTasks(procs, i, get_db_raised)
       ELSE /\ procs' = [procs EXCEPT !.loops[i] = NoLoop]
            /\ lastOp' = Op("start", 0, i, "stopped")
            /\ UNCHANGED records

\* The end of a pass in a loop without the except branch: the exception of
\* db.close() ends the task.
PassEndUncaught(i) ==
    /\ procs.loops[i].pc = "pass"
    /\ \E close_raised \in BOOLEAN :
       /\ close_raised => procs.faults < MaxFaults
       /\ procs' = [procs EXCEPT !.loops[i] =
              IF close_raised THEN NoLoop ELSE [pc |-> "sleep", left |-> SleepTicks],
              !.faults = IF close_raised THEN @ + 1 ELSE @]
       /\ lastOp' = Op("run_hourly_tasks", 0, i, IF close_raised THEN "failed" ELSE "closed")
    /\ UNCHANGED <<today, users, submissions, records, mastered, checkins, scores>>

\* The end of a pass: db.close(), then asyncio.sleep(3600); if close raises,
\* the except branch sleeps 300 s instead.
PassEnd(i) ==
    /\ procs.loops[i].pc = "pass"
    /\ \E close_raised \in BOOLEAN :
       /\ close_raised => procs.faults < MaxFaults
       /\ procs' = [procs EXCEPT !.loops[i] =
              [pc |-> "sleep", left |-> IF close_raised THEN RetryTicks ELSE SleepTicks],
              !.faults = IF close_raised THEN @ + 1 ELSE @]
       /\ lastOp' = Op("run_hourly_tasks", 0, i, IF close_raised THEN "failed" ELSE "closed")
    /\ UNCHANGED <<today, users, submissions, records, mastered, checkins, scores>>

\* POST /notifications/stop-scheduler: SchedulerService.stop.
StopScheduler(max_calls) ==
    /\ procs.calls < max_calls
    /\ TimeLeft > SleepTicks + MaxPassTicks
    /\ procs' = [procs EXCEPT !.calls = @ + 1, !.is_running = FALSE, !.active = FALSE]
    /\ lastOp' = Op("stop_scheduler", 0, 0, "ok")
    /\ UNCHANGED <<today, users, submissions, records, mastered, checkins, scores>>

\* 300 s pass.  A task that is due runs first; a pass lasts at most
\* MaxPassTicks; at midnight the day's counters are closed.
Tick ==
    /\ TimeLeft > 0
    /\ \A i \in LoopIds :
          LET l == procs.loops[i] IN
          /\ l.pc # "created"
          /\ l.pc = "sleep" => l.left > 0
          /\ l.pc = "pass" => l.since < MaxPassTicks
    /\ LET midnight == procs.now + 1 = TicksPerDay
           loops == [i \in LoopIds |->
                       LET l == procs.loops[i] IN
                       IF l.pc = "sleep" THEN [l EXCEPT !.left = @ - 1]
                       ELSE IF l.pc = "pass" THEN [l EXCEPT !.since = @ + 1]
                       ELSE l]
       IN  /\ today' = IF midnight THEN today + 1 ELSE today
           /\ procs' = IF midnight
                       THEN [procs EXCEPT !.now = 0, !.loops = loops,
                                          !.generated = 0, !.active = procs.is_running,
                                          !.done = [generated |-> procs.generated,
                                                    active |-> procs.active]]
                       ELSE [procs EXCEPT !.now = @ + 1, !.loops = loops]
    /\ lastOp' = Op("tick", 0, 0, "ok")
    /\ UNCHANGED <<users, submissions, records, mastered, checkins, scores>>

\* The runner once started and left alone.
NextRunner ==
    \/ Tick
    \/ StartScheduler(MaxCallsRunner)
    \/ \E i \in LoopIds : SchedulerStart(i)
    \/ \E i \in LoopIds : LoopWake(i)
    \/ \E i \in LoopIds : PassEnd(i)

SpecRunner == InitScheduler /\ [][NextRunner]_vars

\* The last hours of the model's calendar, with start and stop requests.
InitLifecycle == InitSchedulerAt(MaxDaySched - 1, LifecycleHour)

NextScheduler ==
    \/ Tick
    \/ StartScheduler(MaxCalls)
    \/ StopScheduler(MaxCalls)
    \/ \E i \in LoopIds : SchedulerStart(i)
    \/ \E i \in LoopIds : LoopWake(i)
    \/ \E i \in LoopIds : PassEnd(i)

SpecScheduler == InitLifecycle /\ [][NextScheduler]_vars

\* Time passes and every task that is due runs.
SpecSchedulerFair ==
    /\ SpecScheduler
    /\ WF_vars(Tick)
    /\ \A i \in LoopIds : WF_vars(SchedulerStart(i))
    /\ \A i \in LoopIds : WF_vars(LoopWake(i))
    /\ \A i \in LoopIds : WF_vars(PassEnd(i))

\* ------------------------------------------------------------ leaderboards
\* Day 0 is 2024-01-01; the first days of the months of 2024.
MonthStarts == <<0, 31, 60, 91, 121, 152, 182, 213, 244, 274, 305, 335>>
DaysInYear == 366
\* date.year, date.month and (month - 1) // 3 + 1 of a day of 2024.
YearOf(d) == 2024 + (d \div DaysInYear)
MonthOf(d) == Cardinality({m \in DOMAIN MonthStarts : MonthStarts[m] <= d % DaysInYear})
QuarterOf(d) == ((MonthOf(d) - 1) \div 3) + 1

\* func.sum(UserScoreRecord.score_value) over the rows of a set.
RECURSIVE SumScoreValue(_, _)
SumScoreValue(scs, rows) ==
    IF rows = {} THEN 0
    ELSE LET r == CHOOSE x \in rows : TRUE
         IN  scs[r] * r.score_value + SumScoreValue(scs, rows \ {r})

\* func.sum(Submission.score) over the submissions of a set.
RECURSIVE SumSubmissionScore(_, _)
SumSubmissionScore(subs, S) ==
    IF S = {} THEN 0
    ELSE LET s == CHOOSE x \in S : TRUE
         IN  subs[s].score + SumSubmissionScore(subs, S \ {s})

\* filter(UserScoreRecord.year == year, .month == month) or (.quarter == quarter)
PeriodScoreRows(scs, period_kind, year, period_value) ==
    {r \in DOMAIN scs :
        /\ YearOf(r.record_date) = year
        /\ IF period_kind = "monthly"
           THEN MonthOf(r.record_date) = period_value
           ELSE QuarterOf(r.record_date) = period_value}

\* query(User.id, sum(score_value)).join(UserScoreRecord).filter(...)
\* .group_by(User.id): one total for every user with a row in the period.
ServiceTotals(usrs, scs, period_kind, year, period_value) ==
    LET rows == PeriodScoreRows(scs, period_kind, year, period_value) IN
    [u \in {u \in DOMAIN usrs : \E r \in rows : r.user_id = u} |->
        SumScoreValue(scs, {r \in rows : r.user_id = u})]

\* The join condition of the API's monthly query: the student's graded,
\* scored submissions created in the month.
MonthSubmissions(subs, u, year, month) ==
    {s \in DOMAIN subs : /\ subs[s].student_id = u
                         /\ subs[s].status = "graded"
                         /\ subs[s].score # NULL
                         /\ YearOf(subs[s].created_at) = year
                         /\ MonthOf(subs[s].created_at) = month}

\* select(User.id, coalesce(sum(Submission.score), 0)).outerjoin(Submission)
\* .where(User.role == "student").group_by(User.id)
ApiTotals(usrs, subs, year, month) ==
    [u \in {u \in DOMAIN usrs : usrs[u].role = "student"} |->
        SumSubmissionScore(subs, MonthSubmissions(subs, u, year, month))]

\* order_by(desc('total_score')): every order of the groups with the totals
\* not increasing; rows of equal total come in whatever order the database
\* produces them.
RECURSIVE OrderGroupsDesc(_, _)
OrderGroupsDesc(totals, S) ==
    IF S = {} THEN {<<>>}
    ELSE LET m == SetMax({totals[u] : u \in S})
         IN  UNION {{<<u>> \o rest : rest \in OrderGroupsDesc(totals, S \ {u})} :
                       u \in {x \in S : totals[x] = m}}

OrderByTotalDesc(totals) == OrderGroupsDesc(totals, DOMAIN totals)

\* .limit(limit), then for rank, result in enumerate(results, 1)
Enumerate(order, totals, limit) ==
    [i \in 1 .. (IF limit < Len(order) THEN limit ELSE Len(order)) |->
        [rank |-> i, user_id |-> order[i], score |-> totals[order[i]]]]

BoardOp(op, u, year, period_value, limit, leaderboard, rank) ==
    [Op(op, u, 0, "ok") EXCEPT !.data =
        [year |-> year, period_value |-> period_value, limit |-> limit,
         leaderboard |-> leaderboard, rank |-> rank]]

\* LearningDataService.get_monthly_leaderboard / get_quarterly_leaderboard.
GetLeaderboard(period_kind, year, period_value, limit) ==
    /\ \E totals \in {ServiceTotals(users, scores, period_kind, year, period_value)} :
       \E results \in OrderByTotalDesc(totals) :
          lastOp' = BoardOp(IF period_kind = "monthly" THEN "get_monthly_leaderboard"
                            ELSE "get_quarterly_leaderboard",
                            0, year, period_value, limit,
                            Enumerate(results, totals, limit), NULL)
    /\ UNCHANGED <<today, users, submissions, records, mastered, checkins, scores, procs>>

\* LearningDataService.get_user_rank_in_leaderboard.  The second query has
\* HAVING without GROUP BY: the rows of all other users form one group (or the
\* database rejects the statement, as SQLite before 3.39 does).
GetUserRankInLeaderboard(user_id, year, month) ==
    LET rows == PeriodScoreRows(scores, "monthly", year, month)
        user_score == SumScoreValue(scores, {r \in rows : r.user_id = user_id})
        others == {r \in rows : r.user_id # user_id}
        higher_scores_count ==
            IF others # {} /\ SumScoreValue(scores, others) > user_score
            THEN Cardinality({r.user_id : r \in others})
            ELSE 0
    IN  /\ UNCHANGED <<today, users, submissions, records, mastered, checkins, scores, procs>>
        /\ IF user_score = 0
           THEN lastOp' = BoardOp("get_user_rank_in_leaderboard", user_id, year, month,
                                  0, <<>>, NULL)
           ELSE \E having_accepted \in BOOLEAN :
                lastOp' = IF having_accepted
                          THEN BoardOp("get_user_rank_in_leaderboard", user_id, year,
                                       month, 0, <<>>, higher_scores_count + 1)
                          ELSE [BoardOp("get_user_rank_in_leaderboard", user_id, year,
                                        month, 0, <<>>, NULL) EXCEPT !.result = "failed"]

\* GET /leaderboard/monthly.  When the caller is not in the page, rank_query
\* groups by user, so scalar() is the count of its first group: 1, or None.
ApiGetMonthlyLeaderboard(current_user, year, month, limit) ==
    \E totals \in {ApiTotals(users, submissions, year, month)} :
    LET current_user_score ==
            SumSubmissionScore(submissions,
                {s \in DOMAIN submissions :
                    /\ submissions[s].student_id = current_user
                    /\ submissions[s].status = "graded"
                    /\ submissions[s].score # NULL
                    /\ YearOf(submissions[s].created_at) = year
                    /\ MonthOf(submissions[s].created_at) = month})
        groups == {u \in DOMAIN totals :
                      /\ MonthSubmissions(submissions, u, year, month) # {}
                      /\ totals[u] > current_user_score}
        higher_ranked_users == IF groups = {} THEN 0 ELSE 1
    IN  /\ \E results \in OrderByTotalDesc(totals) :
           LET leaderboard_data == Enumerate(results, totals, limit)
               found == {i \in DOMAIN leaderboard_data :
                            leaderboard_data[i].user_id = current_user}
           IN  lastOp' = BoardOp("api_get_monthly_leaderboard", current_user, year, month,
                                 limit, leaderboard_data,
                                 IF found # {} THEN SetMin(found)
                                 ELSE higher_ranked_users + 1)
        /\ UNCHANGED <<today, users, submissions, records, mastered, checkins, scores, procs>>

\* The ledgers the queries are asked about: three students and a teacher on
\* 2024-04-01.  Each student has no submission, or one created on one of
\* BoardDays (create_submission grants 1 point that day), ungraded or graded
\* that day (grade_submission: good 2 points, excellent 5).  The teacher has
\* no row, or the streak bonus of three check-ins (POST /checkin) in a row.
BoardStudents == {1, 2, 3}
BoardTeacher == 4
BoardDays == {31, 91}
BoardGradings == {<<"none", NULL>>, <<"good", 60>>, <<"excellent", 90>>}
BoardLimits == {1, 4}

BoardSubmission(u, created_at, grading) ==
    [student_id |-> u, grade |-> grading[1],
     graded_at |-> IF grading[1] = "none" THEN NULL ELSE created_at,
     score |-> grading[2],
     status |-> IF grading[1] = "none" THEN "submitted" ELSE "graded",
     created_at |-> created_at]

\* The ledger rows and cached totals the submissions of subs have produced.
RECURSIVE BoardLedger(_, _, _, _)
BoardLedger(scs, usrs, subs, S) ==
    IF S = {} THEN [scores |-> scs, users |-> usrs]
    ELSE LET s == CHOOSE x \in S : TRUE
             a == AddScoreRecord(scs, usrs, subs[s].student_id, "submission", 1,
                                 subs[s].created_at)
             b == IF subs[s].grade = "good"
                  THEN AddScoreRecord(a.scores, a.users, subs[s].student_id,
                                      "good_grade", 2, subs[s].graded_at)
                  ELSE IF subs[s].grade = "excellent"
                       THEN AddScoreRecord(a.scores, a.users, subs[s].student_id,
                                           "excellent_grade", 5, subs[s].graded_at)
                       ELSE a
         IN  BoardLedger(b.scores, b.users, subs, S \ {s})

InitBoard ==
    /\ today = 91
    /\ \E S \in SUBSET BoardStudents :
       \E created \in [S -> BoardDays], grading \in [S -> BoardGradings] :
       \E teacher_streak \in BOOLEAN :
       LET subs == [u \in S |-> BoardSubmission(u, created[u], grading[u])]
           usrs == [u \in BoardStudents \cup {BoardTeacher} |->
                       IF u # BoardTeacher THEN UserRow("student")
                       ELSE IF teacher_streak
                            THEN [UserRow("teacher") EXCEPT !.current_streak = 3,
                                     !.best_streak = 3, !.last_checkin_date = 30]
                            ELSE UserRow("teacher")]
           bonus == IF teacher_streak
                    THEN AddScoreRecord(EmptyBag, usrs, BoardTeacher, "streak_bonus",
                                        bonus_config[3], 30)
                    ELSE [scores |-> EmptyBag, users |-> usrs]
           ledger == BoardLedger(bonus.scores, bonus.users, subs, S)
       IN  /\ submissions = subs
           /\ users = ledger.users
           /\ scores = ledger.scores
           /\ checkins = IF teacher_streak
                         THEN SetToBag({[user_id |-> BoardTeacher, checkin_date |-> d,
                                         checkin_type |-> "task_view"] : d \in 28 .. 30})
                         ELSE EmptyBag
    /\ records = EmptyBag
    /\ mastered = EmptyBag
    /\ lastOp = Op("init", 0, 0, "ok")
    /\ procs = <<>>

NextBoard ==
    \/ \E kind \in {"monthly", "quarterly"}, d \in BoardDays, limit \in BoardLimits :
          GetLeaderboard(kind, YearOf(d),
                         IF kind = "monthly" THEN MonthOf(d) ELSE QuarterOf(d), limit)
    \/ \E u \in DOMAIN users, d \in BoardDays :
          GetUserRankInLeaderboard(u, YearOf(d), MonthOf(d))
    \/ \E u \in DOMAIN users, d \in BoardDays, limit \in BoardLimits :
          ApiGetMonthlyLeaderboard(u, YearOf(d), MonthOf(d), limit)

SpecBoard == InitBoard /\ [][NextBoard]_vars

\* ------------------------------------------------- the batch over students
\* Two students, each with one submitted, ungraded homework.
BatchStudents == {1, 2}

InitBatch ==
    /\ today = 0
    /\ users = [u \in BatchStudents |-> UserRow("student")]
    /\ submissions = [s \in BatchStudents |->
                         [student_id |-> s, grade |-> "none", graded_at |-> NULL]]
    /\ records = EmptyBag
    /\ mastered = EmptyBag
    /\ checkins = EmptyBag
    /\ scores = EmptyBag
    /\ lastOp = Op("init", 0, 0, "ok")
    /\ procs = <<>>

\* The review rows of one user.
UserRecords(recs, u) ==
    LET rows == {r \in DOMAIN recs : r.user_id = u}
    IN  [r \in rows |-> recs[r]]

NextBatch ==
    \/ AdvanceDay(MaxDay)
    \/ \E s \in DOMAIN submissions, g \in QualityGrades : GradeSubmission(s, g)
    \/ GenerateDailyReviewQueue
    \/ \E u \in DOMAIN users : GetTodayReviewTasks(u)

SpecBatch == InitBatch /\ [][NextBatch]_vars

\* ================================================================= claims
Chains == {<<u, s>> : u \in DOMAIN users, s \in DOMAIN submissions}

\* The rows of one (user, submission) chain.
ChainRows(recs, u, s) ==
    {r \in DOMAIN recs : r.user_id = u /\ r.submission_id = s}

\* C1: for every (user_id, submission_id) at most one review record is
\* pending, in every reachable state.
C1_AtMostOnePending ==
    \A c \in Chains : CountOf(records, PendingRows(records, c[1], c[2])) <= 1

\* C2: when the learner never completes a review, the nightly pass and the
\* auto-upgrade never leave more than 5 review records for one submission.
C2_AtMostFiveObligations ==
    \A c \in Chains : CountOf(records, ChainRows(records, c[1], c[2])) <= 5


\* C3: when two record_checkin calls for the same user and day run at once,
\* they never both insert: the user has at most one check-in row per day.
C3_OneCheckinPerDay ==
    \A u \in DOMAIN users : \A d \in 0..today :
        CountOf(checkins, CheckinRows(checkins, u, d)) <= 1

\* C8: when completing a review and the auto-upgrade run at once on the same
\* pending record, at most one of them advances it: the chain never holds two
\* records at the next review_count.
C8_AtMostOneChild ==
    \A c \in Chains : \A k \in 0..NumIntervals :
        CountOf(records, {r \in ChainRows(records, c[1], c[2]) : r.review_count = k}) <= 1

\* C4: after record_checkin has been called for a user on a day, once or
\* again, the user has exactly one check-in row for that day.
C4_OneEventAfterCall ==
    lastOp.op \in {"get_task", "record_checkin"} =>
        CountOf(checkins, CheckinRows(checkins, lastOp.user, today)) = 1

\* C5: every user's best_streak is at least the current_streak, in every
\* state reached by streak updates of either service with any dates.
C5_BestAtLeastCurrent ==
    \A u \in DOMAIN users : users[u].best_streak >= users[u].current_streak

\* C5 witness: a streak update with an earlier date than the last one has
\* just run on a user whose streak was reset after reaching 3.
C5_Witness ==
    /\ lastOp.op = "sync_update_user_streak"
    /\ lastOp.data[1] < users[lastOp.user].last_checkin_date
    /\ users[lastOp.user].best_streak >= 3
    /\ users[lastOp.user].current_streak = 1

\* C6: when complete_review has just mastered a chain by completing its
\* record at review_count 4, calling it again for the same submission changes
\* neither the review records nor the mastered-task records.
C6_CompleteAgainNoOp ==
    [][(/\ lastOp.op = "complete_review" /\ lastOp.result = "mastered"
        /\ lastOp'.op = "complete_review"
        /\ lastOp'.user = lastOp.user /\ lastOp'.sub = lastOp.sub)
       => UNCHANGED <<records, mastered>>]_vars

\* C7: once a record of a chain has is_mastered set, no step adds a review
\* record to that chain.
C7_NoObligationAfterMastery ==
    [][\A c \in Chains :
          (\E r \in ChainRows(records, c[1], c[2]) : r.is_mastered)
          => CountOf(records', ChainRows(records', c[1], c[2]))
                 <= CountOf(records, ChainRows(records, c[1], c[2]))]_vars

\* C9: when grade_submission has just given a submission a grade of good or
\* excellent, the student has a pending review record for it with
\* review_count 0, the grading date as original date, scheduled a day later.
C9_GradingEnrolls ==
    (lastOp.op = "grade_submission" /\ submissions[lastOp.sub].grade \in QualityGrades)
    => \E r \in PendingRows(records, lastOp.user, lastOp.sub) :
           /\ r.review_count = 0
           /\ r.original_graded_date = submissions[lastOp.sub].graded_at
           /\ r.scheduled_date = submissions[lastOp.sub].graded_at + Interval(0)

\* The records of a list, as a bag.
RECURSIVE ListToBag(_)
ListToBag(list) ==
    IF list = <<>> THEN EmptyBag ELSE AddRow(ListToBag(Tail(list)), Head(list))

\* C10: the list either listing of today's reviews has just returned holds
\* exactly the user's pending records scheduled up to today, in ascending
\* order of scheduled date, and none of them meets the auto-upgrade test.
C10_ListDueAfterUpgrade ==
    lastOp.op \in {"get_today_review_tasks", "get_today_reviews_for_user"} =>
        LET list == lastOp.data
            due  == DueRows(records, lastOp.user, today)
        IN  /\ ListToBag(list) = [r \in due |-> records[r]]
            /\ \A i, j \in 1 .. Len(list) :
                   i < j => list[i].scheduled_date <= list[j].scheduled_date
            /\ \A i \in 1 .. Len(list) : ~UpgradeDue(list[i], today)

\* C11: a streak update dated the Monday after a last check-in on Friday adds
\* 1 to current_streak, and one dated the Friday after a last check-in on
\* Wednesday sets current_streak to 1.
C11_GapClassification ==
    [][\A u \in DOMAIN users :
          (/\ lastOp'.op \in {"async_update_user_streak", "sync_update_user_streak"}
           /\ lastOp'.user = u
           /\ users[u].last_checkin_date # NULL
           /\ lastOp'.data[1] <= today)
          => LET last == users[u].last_checkin_date
                 new  == lastOp'.data[1]
             IN  /\ (Weekday(last) = 4 /\ new = last + 3)
                        => users'[u].current_streak = users[u].current_streak + 1
                 /\ (Weekday(last) = 2 /\ new = last + 2)
                        => users'[u].current_streak = 1]_vars

\* The ledger rows of a user with a given type and date.
ScoreRows(scs, u, score_type, day) ==
    {r \in DOMAIN scs : /\ r.user_id = u
                        /\ r.score_type = score_type
                        /\ r.record_date = day}

\* C12: a user whose current_streak reached 3 with today's check-in has
\* exactly one streak_bonus row dated today, and its value is 1.
C12_BonusAtThree ==
    \A u \in DOMAIN users :
        (users[u].current_streak = 3 /\ users[u].last_checkin_date = today)
        => /\ CountOf(scores, ScoreRows(scores, u, "streak_bonus", today)) = 1
           /\ \A r \in ScoreRows(scores, u, "streak_bonus", today) : r.score_value = 1

\* C13: every ledger row has the value the rule table fixes for its type; a
\* streak_bonus row has one of the six tier values, and the one of the tier
\* when it is dated today and the user's streak reached a tier today.
C13_RuleTableValues ==
    LET RuleValue == ("submission" :> 1) @@ ("good_grade" :> 2)
                         @@ ("excellent_grade" :> 5) @@ ("review_complete" :> 1)
        RuleBonus == (3 :> 1) @@ (7 :> 3) @@ (15 :> 10) @@ (30 :> 50)
                         @@ (60 :> 150) @@ (100 :> 300)
    IN  \A r \in DOMAIN scores :
            IF r.score_type = "streak_bonus"
            THEN /\ \E tier \in DOMAIN RuleBonus : r.score_value = RuleBonus[tier]
                 /\ (/\ r.record_date = today
                     /\ users[r.user_id].last_checkin_date = today
                     /\ users[r.user_id].current_streak \in DOMAIN RuleBonus)
                    => r.score_value = RuleBonus[users[r.user_id].current_streak]
            ELSE /\ r.score_type \in DOMAIN RuleValue
                 /\ r.score_value = RuleValue[r.score_type]

\* C14: when GET /tasks/{task_id} has just made a user's first record_checkin
\* call of the day, the call returned true, today's check-in row is stored,
\* the user's streak is updated to today and one base check-in point is in
\* the ledger.
C14_FirstCheckinSucceeds ==
    (lastOp.op = "get_task" /\ lastOp.result # "false")
    => /\ lastOp.result = "true"
       /\ CountOf(checkins, CheckinRows(checkins, lastOp.user, today)) = 1
       /\ users[lastOp.user].last_checkin_date = today
       /\ CountOf(scores, ScoreRows(scores, lastOp.user, "daily_checkin", today)) = 1

\* C15: a successful completion (complete_review or update_review_progress)
\* of a pending record with review_count below 4 leaves that record
\* completed and adds exactly one record: pending, at review_count + 1, with
\* the same original date, scheduled at original date + the next interval.
C15_CompleteCreatesNext ==
    [][(/\ lastOp'.op \in {"complete_review", "update_review_progress"}
        /\ lastOp'.result \in {"ok", "mastered"})
       => \A r \in PendingRows(records, lastOp'.user, lastOp'.sub) :
              (CopiesIn(r, records') < CopiesIn(r, records) /\ r.review_count < 4)
              => LET done == [r EXCEPT !.status = "completed"]
                     next == NewRecord(r.user_id, r.submission_id, r.review_count + 1,
                                       r.original_graded_date + Interval(r.review_count + 1),
                                       r.original_graded_date)
                 IN  /\ CopiesIn(done, records') = CopiesIn(done, records) + 1
                     /\ CopiesIn(next, records') = CopiesIn(next, records) + 1
                     /\ BagCardinality(records') = BagCardinality(records) + 1]_vars

\* The ledger rows of a user with a given type, whatever their date.
ScoreRowsOfType(scs, u, score_type) ==
    {r \in DOMAIN scs : r.user_id = u /\ r.score_type = score_type}

\* C16: a successful completion (complete_review or update_review_progress)
\* adds exactly one review_complete row, of value 1, to the user's ledger.
C16_CompleteGrantsOnePoint ==
    [][(/\ lastOp'.op \in {"complete_review", "update_review_progress"}
        /\ lastOp'.result \in {"ok", "mastered"})
       => LET grant == [user_id |-> lastOp'.user, score_type |-> "review_complete",
                        score_value |-> 1, record_date |-> today]
          IN  /\ CopiesIn(grant, scores') = CopiesIn(grant, scores) + 1
              /\ CountOf(scores', ScoreRowsOfType(scores', lastOp'.user, "review_complete"))
                     = CountOf(scores, ScoreRowsOfType(scores, lastOp'.user, "review_complete")) + 1]_vars

\* C17: a completion (complete_review or update_review_progress) that fails
\* persists nothing: records, mastered-task records, ledger, users and
\* check-ins are as before the call.
C17_FailedCompleteChangesNothing ==
    [][(/\ lastOp'.op \in {"complete_review", "update_review_progress"}
        /\ lastOp'.result = "failed")
       => UNCHANGED <<records, mastered, scores, users, checkins>>]_vars

\* C18: a completion called when the submission has no pending record of the
\* user changes nothing and answers "not found" without a server error:
\* complete_review returns its (False, message), update_review_progress a
\* response that is not a 500.
C18_NothingToComplete ==
    [][(/\ lastOp'.op \in {"complete_review", "update_review_progress"}
        /\ PendingRows(records, lastOp'.user, lastOp'.sub) = {})
       => /\ UNCHANGED <<records, mastered, scores, users, checkins>>
          /\ lastOp'.result = "not_found"
          /\ lastOp'.data # <<500>>]_vars
\* C19: for every (user, submission) there is at most one mastered-task row
\* in every reachable state, whether mastery is requested once, again, or by
\* two requests at the same time.
C19_AtMostOneMasteryRecord ==
    \A c \in Chains : CountOf(mastered, MasteredRows(mastered, c[1], c[2])) <= 1

\* The chain of (u, s) has come to rest: one pending row, at the last
\* review_count, or no pending row and one mastered-task row, or no pending
\* row and a skipped one.
ChainAtRest(u, s) ==
    LET pend == PendingRows(records, u, s) IN
    \/ /\ CountOf(records, pend) = 1
       /\ \A r \in pend : r.review_count = NumIntervals - 1
    \/ /\ pend = {}
       /\ CountOf(mastered, MasteredRows(mastered, u, s)) = 1
    \/ /\ pend = {}
       /\ \E r \in ChainRows(records, u, s) : r.status = "skipped"

\* C20: with the learner away, the nightly generate_daily_review_queue and the
\* daily auto_upgrade_overdue_tasks eventually bring every chain of a
\* submission graded good or excellent to a single pending row at
\* review_count 4 (or to one mastered-task row, or to skipped), and it stays so.
C20_UnattendedChainSettles ==
    <>[](\A s \in DOMAIN submissions :
            submissions[s].grade \in QualityGrades
                => ChainAtRest(submissions[s].student_id, s))

\* C21: while the runner is running, generate_daily_review_queue runs exactly
\* once per calendar day: never twice on one day (also after the 300 s retry),
\* and once on every day through which is_running stayed true.
C21_GenerateOncePerDay ==
    /\ procs.generated <= 1
    /\ procs.done.active => procs.done.generated = 1

\* C22: a start request or a start() call that finds is_running true launches
\* no loop and leaves is_running true and the running loops as they are; a stop
\* on a stopped scheduler leaves it stopped with its tasks as they are.
C22_StartStopIdempotent ==
    [][/\ (lastOp'.op = "start_scheduler" /\ procs.is_running)
            => /\ procs'.is_running
               /\ procs'.loops = procs.loops
       /\ (lastOp'.op = "start" /\ procs.is_running /\ lastOp'.result # "stopped")
            => /\ procs'.is_running
               /\ RunningLoops(procs') = RunningLoops(procs)
               /\ procs'.loops[lastOp'.sub] = NoLoop
       /\ (lastOp'.op = "stop_scheduler" /\ ~procs.is_running)
            => /\ ~procs'.is_running
               /\ procs'.loops = procs.loops]_vars

\* A start request was served while the scheduler was running with a loop.
C22_Witness ==
    /\ lastOp.op = "start_scheduler"
    /\ lastOp.result = "running"
    /\ procs.is_running
    /\ RunningLoops(procs) # {}

\* C23: once stop has been called and until a start sets is_running again, no
\* task begins an hourly pass, and every task inside the loop leaves it when
\* its sleep (or the pass it was in, and the sleep after it) is over.
C23_StopTerminatesLoop ==
    /\ [][(~procs.is_running /\ ~procs'.is_running)
            => /\ procs'.generated = procs.generated \/ lastOp'.op = "tick"
               /\ lastOp'.op # "run_hourly_tasks" \/ lastOp'.result \in {"closed", "failed"}
               /\ \A i \in LoopIds :
                     procs'.loops[i].pc = "pass" => procs.loops[i].pc = "pass"]_vars
    /\ [](~procs.is_running => <>(procs.is_running \/ RunningLoops(procs) = {}))

\* A task woke up after stop, found is_running false and ended; none is left.
C23_Witness ==
    /\ lastOp.op = "start"
    /\ lastOp.result = "stopped"
    /\ ~procs.is_running
    /\ RunningLoops(procs) = {}

\* C24: every leaderboard lists users of equal total by ascending user id, and
\* asking the same leaderboard again of the same ledger gives the same list.
C24_RankDeterministic ==
    [][lastOp'.op \in {"get_monthly_leaderboard", "get_quarterly_leaderboard",
                       "api_get_monthly_leaderboard"}
        => LET board == lastOp'.data.leaderboard IN
           /\ \A i, j \in DOMAIN board :
                 (i < j /\ board[i].score = board[j].score)
                    => board[i].user_id < board[j].user_id
           /\ (/\ lastOp.op = lastOp'.op
               /\ lastOp.user = lastOp'.user
               /\ lastOp.data.year = lastOp'.data.year
               /\ lastOp.data.period_value = lastOp'.data.period_value
               /\ lastOp.data.limit = lastOp'.data.limit
               /\ UNCHANGED <<users, submissions, scores>>)
                 => board = lastOp.data.leaderboard]_vars

\* C25: the rank given for a user in a month is 1 + the number of students
\* whose total of ledger points in that month is strictly greater than the
\* user's, for every user, in the page or not.
C25_RankOfCountsGreater ==
    lastOp.op \in {"get_user_rank_in_leaderboard", "api_get_monthly_leaderboard"}
        => LET Total(u) == SumScoreValue(scores,
                              {r \in PeriodScoreRows(scores, "monthly", lastOp.data.year,
                                                     lastOp.data.period_value) :
                                  r.user_id = u})
           IN  /\ lastOp.result = "ok"
               /\ lastOp.data.rank =
                     1 + Cardinality({v \in DOMAIN users :
                                         /\ users[v].role = "student"
                                         /\ Total(v) > Total(lastOp.user)})

\* C26: a leaderboard has at most limit entries, all of them students, each
\* with the sum of the user's ledger points of the month (or quarter) asked
\* for, in order of non-increasing total, ranked 1, 2, 3, ...
C26_RankContents ==
    lastOp.op \in {"get_monthly_leaderboard", "get_quarterly_leaderboard",
                   "api_get_monthly_leaderboard"}
        => LET board == lastOp.data.leaderboard
               rows  == PeriodScoreRows(scores,
                            IF lastOp.op = "get_quarterly_leaderboard"
                            THEN "quarterly" ELSE "monthly",
                            lastOp.data.year, lastOp.data.period_value)
           IN  /\ Len(board) <= lastOp.data.limit
               /\ \A i \in DOMAIN board :
                     /\ users[board[i].user_id].role = "student"
                     /\ board[i].score =
                           SumScoreValue(scores,
                               {r \in rows : r.user_id = board[i].user_id})
                     /\ board[i].rank = i
               /\ \A i, j \in DOMAIN board : i < j => board[i].score >= board[j].score

\* C27: a student without ledger rows in the period is on the leaderboard
\* with total 0, after every user with a positive total and among the other
\* zero totals by ascending user id, and the rank asked for such a student is
\* defined.
C27_ZeroTotalRanked ==
    /\ (lastOp.op \in {"get_monthly_leaderboard", "get_quarterly_leaderboard",
                       "api_get_monthly_leaderboard"}
        /\ lastOp.data.limit >= Cardinality(DOMAIN users))
        => LET board == lastOp.data.leaderboard
               rows  == PeriodScoreRows(scores,
                            IF lastOp.op = "get_quarterly_leaderboard"
                            THEN "quarterly" ELSE "monthly",
                            lastOp.data.year, lastOp.data.period_value)
           IN  \A u \in DOMAIN users :
                  (users[u].role = "student" /\ \A r \in rows : r.user_id # u)
                     => \E i \in DOMAIN board :
                           /\ board[i].user_id = u
                           /\ board[i].score = 0
                           /\ \A j \in DOMAIN board :
                                 /\ board[j].score > 0 => j < i
                                 /\ (board[j].score = 0 /\ board[j].user_id < u) => j < i
    /\ (/\ lastOp.op \in {"get_user_rank_in_leaderboard", "api_get_monthly_leaderboard"}
        /\ lastOp.user \in DOMAIN users
        /\ users[lastOp.user].role = "student"
        /\ \A r \in PeriodScoreRows(scores, "monthly", lastOp.data.year,
                                    lastOp.data.period_value) : r.user_id # lastOp.user)
        => /\ lastOp.result = "ok"
           /\ lastOp.data.rank # NULL

\* C28: a listing advances exactly the caller's pending rows that are overdue
\* by at least the gap to the next interval and are not at the last index:
\* each is marked completed and gets one pending row at the next index, dated
\* the later of today and original date plus the next interval; every other
\* row stays as it was.
AdvancedRows(u) ==
    {r \in BagToSet(records) :
        /\ r.user_id = u
        /\ r.status = "pending"
        /\ today - r.scheduled_date > 0
        /\ r.review_count # NumIntervals - 1
        /\ today - r.scheduled_date
              >= Interval(r.review_count + 1) - Interval(r.review_count)}

AdvancedChild(r) ==
    [r EXCEPT !.review_count = r.review_count + 1,
              !.scheduled_date = Max(today, r.original_graded_date
                                              + Interval(r.review_count + 1)),
              !.status = "pending"]

C28_AutoUpgrade ==
    [][lastOp'.op = "get_today_review_tasks"
         => LET adv == AdvancedRows(lastOp'.user)
                copies(S) == Cardinality({p \in S \X (1 .. MaxRecords) :
                                              p[2] <= CopiesIn(p[1], records)})
            IN  \A x \in BagToSet(records) \cup BagToSet(records') :
                   CopiesIn(x, records')
                      = (IF x \in adv THEN 0 ELSE CopiesIn(x, records))
                        + copies({r \in adv : [r EXCEPT !.status = "completed"] = x})
                        + copies({r \in adv : AdvancedChild(r) = x})]_vars

\* The listing of day 10 has moved the row of index 1 planned for day 3 to
\* index 2 planned for day 10.
C28_Witness ==
    /\ lastOp.op = "get_today_review_tasks"
    /\ today = 10
    /\ \E r \in BagToSet(records) :
          /\ r.review_count = 1 /\ r.scheduled_date = 3 /\ r.status = "completed"
          /\ \E c \in BagToSet(records) :
                /\ c.review_count = 2 /\ c.scheduled_date = 10 /\ c.status = "pending"
                /\ c.submission_id = r.submission_id

\* C29: within one (user_id, submission_id) chain no two review records share
\* a review_count, whichever of the nightly pass, the auto-upgrade, the
\* completion and the manual creation made them.
C29_IndexUniqueInChain ==
    \A r \in BagToSet(records) :
       /\ CopiesIn(r, records) = 1
       /\ \A q \in BagToSet(records) :
             (/\ q.user_id = r.user_id
              /\ q.submission_id = r.submission_id
              /\ q.review_count = r.review_count) => q = r

\* C30: a second run of the daily queue generation, by the nightly pass or
\* by the manual endpoint, right after a run of the same kind on the same day,
\* adds no review record and changes none, also when the first run stopped
\* part of the way on an exception.
C30_GenerateIdempotent ==
    [][(/\ lastOp'.op \in {"generate_daily_review_queue",
                           "api_generate_daily_review_queue"}
        /\ lastOp.op = lastOp'.op
        /\ lastOp.user = lastOp'.user)
          => records' = records]_vars

\* A manual run that found every passed interval of a graded submission
\* already in the table and created nothing.
C30_Witness ==
    /\ lastOp.op = "api_generate_daily_review_queue"
    /\ lastOp.result = "ok"
    /\ lastOp.data.new_reviews_created = 0
    /\ \E s \in QualifyingSubs(submissions, lastOp.user) :
          /\ submissions[s].graded_at + Interval(1) <= today
          /\ \A rc \in 0 .. 1 :
                CountOf(records, ExistingRows(records, lastOp.user, s, rc)) = 1

\* C31: when the nightly pass fails on one student, every other active
\* student still gets the review records the pass would have given them had
\* the failing student not been there.
C31_BatchSurvivesFailure ==
    [][lastOp'.op = "generate_daily_review_queue"
         => LET failing == {u \in ActiveStudents(users) :
                              GenerateUserDailyReviews(records, mastered, submissions,
                                                       u, today).raised}
            IN  failing # {}
                  => \A u \in ActiveStudents(users) \ failing :
                        UserRecords(records', u)
                           = GenerateUserDailyReviews(UserRecords(records, u), mastered,
                                                      submissions, u, today).recs]_vars

\* The pass has just run on day 4: student 1 holds two rows at one
\* review_count, on which the pass fails, and student 2, graded on day 1, has
\* got the row planned for day 4.
C31_Witness ==
    /\ lastOp.op = "generate_daily_review_queue"
    /\ today = 4
    /\ \E r \in BagToSet(records) :
          /\ r.user_id = 1
          /\ r.scheduled_date <= today
          /\ CountOf(records, ExistingRows(records, 1, r.submission_id, r.review_count)) >= 2
    /\ \E r \in BagToSet(records) :
          /\ r.user_id = 2 /\ r.review_count = 1 /\ r.scheduled_date = 4

C33_NoChangeOnOldDate ==
    [][\A u \in DOMAIN users :
          (/\ lastOp'.op \in {"async_update_user_streak", "sync_update_user_streak"}
           /\ lastOp'.user = u
           /\ users[u].last_checkin_date # NULL
           /\ lastOp'.data[1] <= users[u].last_checkin_date)
          => /\ users'[u].current_streak = users[u].current_streak
             /\ users'[u].best_streak = users[u].best_streak
             /\ users'[u].last_checkin_date = users[u].last_checkin_date
             /\ scores' = scores]_vars

\* C34: whatever start and stop requests were served, at most one task is
\* inside the scheduler's loop, so no two tasks run hourly passes.
C34_AtMostOneLoop ==
    Cardinality(RunningLoops(procs)) <= 1

\* C35: every mastered-task row belongs to a chain that holds a completed
\* review record at review_count 4 with is_mastered set.
C35_MasteryOnlyAfterFinalReview ==
    \A m \in BagToSet(mastered) :
       \E r \in BagToSet(records) :
          /\ r.user_id = m.user_id
          /\ r.submission_id = m.submission_id
          /\ r.review_count = NumIntervals - 1
          /\ r.status = "completed"
          /\ r.is_mastered

\* C36: all review records of one (user_id, submission_id) chain carry the
\* same original_graded_date, also when the submission was graded again
\* between two steps of the chain.
C36_OneOriginPerChain ==
    \A r, q \in BagToSet(records) :
       (r.user_id = q.user_id /\ r.submission_id = q.submission_id)
          => r.original_graded_date = q.original_graded_date

\* C37: a listing leaves every pending row at review_count 4 in the table as
\* it is (it may add rows at review_count 4, never beyond), sets
\* is_mastered on no row and adds no mastered-task row.
C37_LastIndexStaysPending ==
    [][lastOp'.op = "get_today_review_tasks"
         => /\ \A r \in BagToSet(records) :
                  (r.review_count = NumIntervals - 1 /\ r.status = "pending")
                     => CopiesIn(r, records') >= CopiesIn(r, records)
            /\ \A r \in BagToSet(records') :
                  r.is_mastered => CopiesIn(r, records') = CopiesIn(r, records)
            /\ \A r \in BagToSet(records') : r.review_count < NumIntervals
            /\ mastered' = mastered]_vars

\* A listing on day 31 has upgraded a row to review_count 4 while the row of
\* review_count 4 planned for day 30 is still pending.
C37_Witness ==
    /\ lastOp.op = "get_today_review_tasks"
    /\ today = 31
    /\ \E r \in BagToSet(records) :
          /\ r.review_count = NumIntervals - 1
          /\ r.status = "pending"
          /\ r.scheduled_date = 30
    /\ \E r \in BagToSet(records) :
          /\ r.review_count = NumIntervals - 2
          /\ r.status = "completed"

\* C38: every user's cached total_score equals the sum of score_value over
\* the user's ledger rows, after any sequence of grants.
C38_TotalIsLedgerSum ==
    \A u \in DOMAIN users :
       users[u].total_score
          = SumScoreValue(scores, {r \in BagToSet(scores) : r.user_id = u})

\* A user holds ledger rows of two kinds and a positive total.
C38_Witness ==
    \E u \in DOMAIN users :
       /\ users[u].total_score >= 3
       /\ \E r, q \in BagToSet(scores) :
             /\ r.user_id = u /\ q.user_id = u
             /\ r.score_type # q.score_type

\* C39: an exception in an hourly pass leaves the task in the loop, asleep
\* for the retry delay, and while is_running stays true the task runs another
\* pass (as long as the calendar leaves time for the retries).
C39_RunnerSurvivesException ==
    /\ [][(lastOp'.op = "run_hourly_tasks" /\ lastOp'.result = "failed")
            => procs'.loops[lastOp'.sub] = [pc |-> "sleep", left |-> RetryTicks]]_vars
    /\ \A i \in LoopIds :
          []((/\ lastOp.op = "run_hourly_tasks"
              /\ lastOp.result = "failed"
              /\ lastOp.sub = i
              /\ TimeLeft >= MaxFaults * RetryTicks)
                => <>(~procs.is_running \/ procs.loops[i].pc = "pass"))

\* The only task ever started is in a pass again after an exception.
C39_Witness ==
    /\ procs.calls = 1
    /\ procs.faults >= 1
    /\ procs.is_running
    /\ lastOp.op = "run_hourly_tasks"
    /\ lastOp.result \in {"ok", "generated"}
    /\ procs.loops[lastOp.sub].pc = "pass"

====
